---- MODULE Spec2Model ----
(***************************************************************************)
(* Model of the benchmark scripts of Splunk-db-connect-benchmark:          *)
(*   benchmarks/01_native_baseline.py         (run_benchmark, main)        *)
(*   benchmarks/02_splunk_dbxquery_overhead.py (run_overhead_benchmark)    *)
(*   benchmarks/03_iceberg_multi_engine.py    (run_iceberg_comparison)     *)
(*   benchmarks/04_parquet_multi_engine.py    (benchmark_query, main)      *)
(*   benchmarks/postgresql_benchmark.py       (benchmark_query, main)      *)
(* One behaviour is one run of one script.  A step is one statement group  *)
(* of main or one iteration of a runner loop; the backend's answer to an   *)
(* execution (rows and elapsed time, or an error) is the step's input.     *)
(* Latencies are exact rationals; floating-point rounding is not modelled. *)
(* Spec is a whole run; SpecStats starts where a runner's loops have ended, *)
(* with any iteration count and any latencies, and applies the statistics; *)
(* SpecRunner is one call of a runner with any timing of its executions.   *)
(* The tools around the benchmarks have a specification each:              *)
(*   tests/validate_environment.py            (SpecValidate)               *)
(*   scripts/test_dbconnect.py                (SpecSearch)                 *)
(*   scripts/load_clickhouse_from_postgres.py (SpecLoad)                   *)
(***************************************************************************)
EXTENDS Integers, Sequences, FiniteSets, TLC

(* ---------------------------------------------------------------- bounds *)
\* number of entries of the QUERIES catalog that are modelled
NumQueries == 2
\* an execution takes 1..MaxElapsed seconds of wall-clock time
MaxElapsed == 2
\* an execution returns 0..MaxRows rows
MaxRows == 1
\* the source table of the loader holds up to MaxBatches full batches of rows
\* (and one row less, or one more)
MaxBatches == 2

(* ------------------------------------------------------ program constants *)
\* ITERATIONS of 01, 02, 03 and 04
ITERATIONS == 5
\* ITERATIONS of postgresql_benchmark.py
PG_ITERATIONS == 3
\* test_dbconnect.run_search: for i in range(30)
MAX_POLLS == 30
\* load_clickhouse_from_postgres.BATCH_SIZE
BATCH_SIZE == 10000
\* latency_ms = (end_time - start_time) * 1000
MS_PER_SECOND == 1000
\* overhead_pct = (overhead_ms / avg) * 100
PERCENT == 100

S01 == "01_native_baseline"
S02 == "02_splunk_dbxquery_overhead"
S03 == "03_iceberg_multi_engine"
S04 == "04_parquet_multi_engine"
SPG == "postgresql_benchmark"
Scripts == {S01, S02, S03, S04, SPG}
VAL == "validate_environment"
TDB == "test_dbconnect"
LCH == "load_clickhouse_from_postgres"

\* an optional value: Python's None, or a value v
None == <<>>
Some(v) == <<v>>
Value(o) == o[1]

\* the keys of QUERIES, in dict (insertion) order
QUERIES == 1 .. NumQueries

Elapsed == 1 .. MaxElapsed
Rows == 0 .. MaxRows

\* what an execution can raise (str(e) of the exception)
Causes == {"backend error", "connection refused"}
\* the ways query_via_splunk_dbxquery sees the proxy command fail
ProxyFailures == {"returncode", "TimeoutExpired", "Exception"}

(* --------------------------------------------------- exact rational numbers *)
RECURSIVE GCD(_, _)
GCD(a, b) == IF b = 0 THEN a ELSE GCD(b, a % b)

Abs(n) == IF n < 0 THEN -n ELSE n

\* the rational n/d (d # 0) in lowest terms with a positive denominator
Rat(n, d) ==
    LET g == GCD(Abs(n), Abs(d))
        s == IF d < 0 THEN -1 ELSE 1
    IN  [num |-> s * (n \div g), den |-> s * (d \div g)]

RatInt(n) == [num |-> n, den |-> 1]
RatSub(a, b) == Rat(a.num * b.den - b.num * a.den, a.den * b.den)
RatMul(a, b) == Rat(a.num * b.num, a.den * b.den)
RatDiv(a, b) == Rat(a.num * b.den, a.den * b.num)
RatAdd(a, b) == Rat(a.num * b.den + b.num * a.den, a.den * b.den)
RatLess(a, b) == a.num * b.den < b.num * a.den
RatLeq(a, b) == a.num * b.den <= b.num * a.den

(* ------------------------------------------------- statistics of a sample *)
RECURSIVE SeqSum(_)
SeqSum(s) == IF s = <<>> THEN 0 ELSE Head(s) + SeqSum(Tail(s))

\* statistics.mean(latencies); StatisticsError on an empty list
Mean(s) == Rat(SeqSum(s), Len(s))

\* the first element taken for the smallest
MinFirst(s) == s[1]

\* min(latencies), max(latencies); ValueError on an empty list
Min(s) == CHOOSE x \in {s[k] : k \in 1 .. Len(s)} : \A k \in 1 .. Len(s) : x <= s[k]
Max(s) == CHOOSE x \in {s[k] : k \in 1 .. Len(s)} : \A k \in 1 .. Len(s) : x >= s[k]

\* sorted(latencies)
RECURSIVE Sorted(_)
Sorted(s) ==
    IF s = <<>> THEN <<>>
    ELSE LET k == CHOOSE j \in 1 .. Len(s) : \A m \in 1 .. Len(s) : s[j] <= s[m]
         IN  <<s[k]>> \o Sorted(SubSeq(s, 1, k - 1) \o SubSeq(s, k + 1, Len(s)))

\* the middle of the list as it was collected, without sorting it
MedianUnsorted(s) ==
    LET n == Len(s)
    IN  IF n % 2 = 1 THEN RatInt(s[(n + 1) \div 2])
        ELSE Rat(s[n \div 2] + s[n \div 2 + 1], 2)

\* statistics.median(latencies): the middle value, or the mean of the two middle values
Median(s) ==
    LET t == Sorted(s)
        n == Len(s)
    IN  IF n % 2 = 1 THEN RatInt(t[(n + 1) \div 2])
        ELSE Rat(t[n \div 2] + t[n \div 2 + 1], 2)

\* the non-negative square root of the rational r, kept symbolic
SqrtOf(r) == [sqrt_of |-> r]

\* statistics.pstdev: the divisor n instead of n - 1
PopulationStdev(s) ==
    LET n == Len(s)
        total == SeqSum(s)
        squares == SeqSum([k \in 1 .. n |-> s[k] * s[k]])
    IN  SqrtOf(Rat(n * squares - total * total, n * n))

\* statistics.stdev(latencies): sqrt(sum((x - mean)^2) / (n - 1)), n >= 2;
\* with m = total/n:  sum((x - m)^2) = (n * sum(x^2) - total^2) / n
Stdev(s) ==
    LET n == Len(s)
        total == SeqSum(s)
        squares == SeqSum([k \in 1 .. n |-> s[k] * s[k]])
    IN  SqrtOf(Rat(n * squares - total * total, n * (n - 1)))

\* the deviation taken about zero instead of about the mean, for any list
StdevAboutZero(s) ==
    IF Len(s) > 0
    THEN SqrtOf(Rat(SeqSum([k \in 1 .. Len(s) |-> s[k] * s[k]]), Len(s)))
    ELSE SqrtOf(RatInt(0))

\* statistics.stdev(x) if len(x) > 1 else 0
StdevOrZero(s) == IF Len(s) > 1 THEN Stdev(s) ELSE SqrtOf(RatInt(0))

\* statistics.mean of a list of rationals
RECURSIVE RatSeqSum(_)
RatSeqSum(s) == IF s = <<>> THEN RatInt(0) ELSE RatAdd(Head(s), RatSeqSum(Tail(s)))
MeanRat(s) == RatDiv(RatSeqSum(s), RatInt(Len(s)))

(* -------------------------------------------------------------- comparator *)
\* the subtraction with its operands exchanged
OverheadMsSwapped(avg_base, avg_comp) == RatSub(avg_base, avg_comp)

\* overhead_ms = avg_comparand - avg_baseline
OverheadMs(avg_base, avg_comp) == RatSub(avg_comp, avg_base)

\* the relative overhead left as a fraction, not scaled to a percentage
OverheadFraction(avg_base, avg_comp) ==
    IF RatLess(RatInt(0), avg_base)
    THEN RatDiv(OverheadMs(avg_base, avg_comp), avg_base)
    ELSE RatInt(0)

\* overhead_pct = (overhead_ms / avg_baseline) * 100 if avg_baseline > 0 else 0
OverheadPct(avg_base, avg_comp) ==
    IF RatLess(RatInt(0), avg_base)
    THEN RatMul(RatDiv(OverheadMs(avg_base, avg_comp), avg_base), RatInt(PERCENT))
    ELSE RatInt(0)

\* the degenerate baseline reported as "no slowdown" (1) instead of 0
SlowdownFactorOne(avg_base, avg_comp) ==
    IF RatLess(RatInt(0), avg_base) THEN RatDiv(avg_comp, avg_base) ELSE RatInt(1)

\* slowdown_factor = avg_comparand / avg_baseline if avg_baseline > 0 else 0
SlowdownFactor(avg_base, avg_comp) ==
    IF RatLess(RatInt(0), avg_base) THEN RatDiv(avg_comp, avg_base) ELSE RatInt(0)

(* ------------------------------------------------------------------ sampler *)
\* the elapsed time left in seconds
LatencySeconds(elapsed) == elapsed

\* latency_ms = (end_time - start_time) * 1000
LatencyMs(elapsed) == elapsed * MS_PER_SECOND

\* 02 query_via_splunk_dbxquery: (stdout, latency_ms) on return code 0, and
\* (None, latency_ms) on a non-zero return code, a timeout or any exception
QueryViaSplunkDbxquery(outcome, elapsed) ==
    [stdout     |-> IF outcome = "ok" THEN Some("stdout") ELSE None,
     latency_ms |-> LatencyMs(elapsed)]

\* postgresql_benchmark.run_query returns elapsed_time, in seconds
RunQueryElapsed(elapsed) == elapsed

(* ------------------------------------------------- what the runners return *)
\* the dict with the number of samples in place of the number of rows
RunBenchmarkResultCountingSamples(lats, res) ==
    [latencies      |-> lats,
     row_count      |-> Len(lats),
     avg_latency_ms |-> Mean(lats),
     min_latency_ms |-> Min(lats),
     max_latency_ms |-> Max(lats)]

\* 01 run_benchmark: the dict built after the loop; res is None or the number
\* of rows of the last execution (row_count = len(results) if results else 0)
RunBenchmarkResult(lats, res) ==
    [latencies      |-> lats,
     row_count      |-> IF res # None /\ Value(res) # 0 THEN Value(res) ELSE 0,
     avg_latency_ms |-> Mean(lats),
     min_latency_ms |-> Min(lats),
     max_latency_ms |-> Max(lats)]

\* 01 print_result: the values it computes from the latencies and prints
PrintResult(lats, row_count) ==
    [row_count   |-> row_count,
     avg_latency |-> Mean(lats),
     min_latency |-> Min(lats),
     max_latency |-> Max(lats),
     std_dev     |-> StdevOrZero(lats)]

\* 02 run_overhead_benchmark: the dict built after the two loops
RunOverheadResult(direct, splunk) ==
    [direct_latencies |-> direct,
     splunk_latencies |-> splunk,
     avg_direct_ms    |-> Mean(direct),
     avg_splunk_ms    |-> Mean(splunk),
     overhead_ms      |-> OverheadMs(Mean(direct), Mean(splunk)),
     overhead_pct     |-> OverheadPct(Mean(direct), Mean(splunk))]

\* 03 run_iceberg_comparison: the dict built after the two loops
RunIcebergResult(native, iceberg) ==
    [native_latencies  |-> native,
     iceberg_latencies |-> iceberg,
     avg_native_ms     |-> Mean(native),
     avg_iceberg_ms    |-> Mean(iceberg),
     slowdown_factor   |-> SlowdownFactor(Mean(native), Mean(iceberg))]

\* 04 benchmark_query: the dict built after the loop
BenchmarkQueryResult(lats) ==
    [min_ms    |-> Min(lats),
     max_ms    |-> Max(lats),
     avg_ms    |-> Mean(lats),
     median_ms |-> Median(lats),
     stddev_ms |-> StdevOrZero(lats),
     latencies |-> lats]

\* 04 main: the entry stored for one query from its two benchmark_query results
ParquetEntry(q, native_result, parquet_result) ==
    [name            |-> q,
     native          |-> native_result,
     parquet         |-> parquet_result,
     overhead_ms     |-> OverheadMs(native_result.avg_ms, parquet_result.avg_ms),
     overhead_pct    |-> OverheadPct(native_result.avg_ms, parquet_result.avg_ms),
     slowdown_factor |-> SlowdownFactor(native_result.avg_ms, parquet_result.avg_ms)]

\* postgresql_benchmark.benchmark_query: None for an empty list, else the dict
PgBenchmarkResult(q, times, n) ==
    IF times = <<>> THEN None
    ELSE Some([name       |-> q,
               query      |-> q,
               min        |-> Min(times),
               max        |-> Max(times),
               avg        |-> Mean(times),
               median     |-> Median(times),
               stddev     |-> StdevOrZero(times),
               iterations |-> n])

(* --------------------------------------------------------- python dicts *)
EmptyDict == [k \in {} |-> 0]
DictSet(d, k, v) == [x \in (DOMAIN d) \cup {k} |-> IF x = k THEN v ELSE d[x]]

\* `if result:` -- None is falsy, a non-empty dict is truthy
Truthy(r) == r # None

(* ------------------------------------------------------------------- state *)
VARIABLES
    script,               \* which script this run is
    skip_starrocks,       \* 01: args.skip_starrocks
    durs,                 \* the elapsed times the backends of this run can take
    rowset,               \* the row counts the backends of this run can return
    absent,               \* the <<query_id, key>> pairs QUERIES has no text for
    iterations,           \* ITERATIONS / the iterations argument of 04 benchmark_query
    pc,                   \* where main is
    db,                   \* index of the backend section main is in
    qi,                   \* the query_id of the catalog main is at
    phase,                \* which loop of the runner: "baseline" or "comparand"
    i,                    \* iterations of the current loop that have been executed
    latencies,            \* latencies / direct_latencies / native_latencies / times
    comparand_latencies,  \* splunk_latencies / iceberg_latencies / parquet latencies
    results,              \* 01 run_benchmark: rows of the last execution, or None
    result,               \* what the runner returned to main
    all_results,          \* main's all_results dict
    results_list,         \* postgresql_benchmark main's results list
    console,              \* lines printed since main's last "Running: ..." line
    summary,              \* lines of the textual summary printed so far
    trace,                \* executions of the current runner call, in order
    report,               \* the JSON file: None, or what json.dump wrote
    exception,            \* the exception that escaped main, None if none
    exit_code,            \* None while running, then the process exit status
    conn,                 \* 04 client / postgresql_benchmark conn: "none", "open", "closed"
    any_failed,           \* history: some execution of this run has failed
    unclosed,             \* history: a sampler returned or raised with its connection open
    all_healthy,          \* validate_environment main: all_healthy
    checks,               \* history: what each check function called so far did
    statuses,             \* the status check_service returned, per service so far
    sid,                  \* run_search: the sid of the created job, None before
    polls,                \* run_search: status requests sent so far
    dispatch_state,       \* run_search: the dispatchState read last, "" before
    observed,             \* history: the dispatch states read so far
    fetched,              \* history: the results of the job were requested
    search_result,        \* what run_search returned
    total,                \* load_security_logs: total (COUNT(*) before the loop)
    offset,               \* load_security_logs: offset
    loaded,               \* load_security_logs: loaded
    inserted,             \* the batches given to ch_client.insert, as position ranges
    source_rows,          \* rows the PostgreSQL table holds now
    changed               \* history: the source table changed since it was counted

validation == <<all_healthy, checks, statuses>>
search == <<sid, polls, dispatch_state, observed, fetched, search_result>>
load == <<total, offset, loaded, inserted, source_rows, changed>>
tools == <<validation, search, load>>

vars == <<script, skip_starrocks, durs, rowset, absent, iterations, pc, db, qi, phase, i, latencies,
          comparand_latencies, results, result, all_results, results_list,
          console, summary, trace, report, exception, exit_code, conn, any_failed,
          unclosed, tools>>

frame == <<phase, i, latencies, comparand_latencies, results, result, trace>>
config == <<script, skip_starrocks, durs, rowset, absent, iterations>>

\* the backend sections of main, in order
Backends ==
    CASE script = S01 -> IF skip_starrocks THEN <<"postgresql", "clickhouse">>
                         ELSE <<"postgresql", "clickhouse", "starrocks">>
      [] script = S02 -> <<"postgresql", "clickhouse", "starrocks">>
      [] script = S03 -> <<"clickhouse", "starrocks">>
      [] script = S04 -> <<"clickhouse">>
      [] script = SPG -> <<"postgresql">>

\* the keys of a QUERIES entry that hold query text
VariantKeys ==
    CASE script = S01 -> {"postgresql", "clickhouse", "starrocks"}
      [] script = S02 -> {"sql"}
      [] script = S03 -> {"clickhouse_native", "clickhouse_iceberg",
                          "starrocks_native", "starrocks_iceberg"}
      [] script = S04 -> {"native", "parquet"}
      [] script = SPG -> {"query"}

\* the subscripts query_info[...] that main evaluates to call the runner for a
\* query of backend d (04: before the first benchmark_query call)
CallVariants(d) ==
    CASE script = S01 -> {d}
      [] script = S02 -> {"sql"}
      [] script = S03 -> IF d = "clickhouse"
                         THEN {"clickhouse_native", "clickhouse_iceberg"}
                         ELSE {"starrocks_native", "starrocks_iceberg"}
      [] script = S04 -> {"native"}
      [] script = SPG -> {}

\* query_info[key] raises KeyError
KeyMissing(q, keys) == \E k \in keys : <<q, k>> \in absent

\* ITERATIONS of the script
Iterations == IF script = SPG THEN PG_ITERATIONS ELSE ITERATIONS

\* the scripts that run every query in a baseline and a comparand context
TwoContexts == script \in {S02, S03, S04}

\* the scripts whose main keeps all_results[backend][query_id]
Sectioned == script \in {S01, S02, S03}

TypeOK ==
    /\ script \in Scripts
    /\ skip_starrocks \in BOOLEAN
    /\ durs \subseteq Elapsed /\ rowset \subseteq Rows
    /\ absent \subseteq QUERIES \X VariantKeys
    /\ pc \in {"start", "section", "call", "run", "store", "summary", "analysis",
               "save", "done", "crashed"}
    /\ db \in 1 .. Len(Backends) /\ qi \in QUERIES
    /\ phase \in {"baseline", "comparand"}
    /\ iterations = Iterations
    /\ i \in 0 .. iterations
    /\ Len(latencies) <= iterations /\ Len(comparand_latencies) <= iterations
    /\ exit_code \in {None, Some(0), Some(1)}
    /\ conn \in {"none", "open", "closed"}
    /\ any_failed \in BOOLEAN
    /\ unclosed \in BOOLEAN

\* the tools' variables while a benchmark script runs
ValidationIdle == all_healthy = TRUE /\ checks = <<>> /\ statuses = <<>>
SearchIdle ==
    /\ sid = None /\ polls = 0 /\ dispatch_state = "" /\ observed = {}
    /\ fetched = FALSE /\ search_result = None
LoadIdle ==
    /\ total = 0 /\ offset = 0 /\ loaded = 0 /\ inserted = <<>>
    /\ source_rows = 0 /\ changed = FALSE

InitRun ==
    /\ pc = "start"
    /\ db = 1 /\ qi = 1
    /\ phase = "baseline" /\ i = 0
    /\ latencies = <<>> /\ comparand_latencies = <<>>
    /\ results = None /\ result = None
    /\ all_results = EmptyDict
    /\ results_list = <<>>
    /\ console = {} /\ summary = <<>> /\ trace = <<>>
    /\ report = None
    /\ exception = None /\ exit_code = None
    /\ conn = "none" /\ any_failed = FALSE /\ unclosed = FALSE

\* a run of any script; the backends answer with one elapsed time and one row
\* count throughout the run (no branch of main depends on either); the QUERIES
\* dict is complete or lacks one text of one entry
Init ==
    /\ script \in Scripts
    /\ skip_starrocks \in (IF script = S01 THEN BOOLEAN ELSE {FALSE})
    /\ durs \in {{e} : e \in Elapsed}
    /\ rowset \in {{r} : r \in Rows}
    /\ absent \in {{}} \cup {{v} : v \in QUERIES \X VariantKeys}
    /\ iterations = Iterations
    /\ InitRun
    /\ ValidationIdle /\ SearchIdle /\ LoadIdle

(* ------------------------------------------------------------ main: start *)
\* an exception leaves main: traceback, exit status 1
UncaughtAt(e, where) ==
    /\ pc' = "crashed"
    /\ exception' = Some([type |-> e, at |-> where])
    /\ exit_code' = Some(1)

Uncaught(e) == UncaughtAt(e, pc)

\* a line printed for the query main is at
Line(kind, cause) == [kind |-> kind, db |-> Backends[db], q |-> qi, cause |-> cause]

\* 01, 02, 03: header prints, all_results = {}
StartSections ==
    /\ pc = "start" /\ Sectioned
    /\ all_results' = EmptyDict
    /\ pc' = "section"
    /\ UNCHANGED <<config, tools, db, qi, frame, console, results_list, summary, report,
                   exception, exit_code,
                   conn, any_failed, unclosed>>

\* 04: get_client and the two COUNT(*) queries, outside any try
Connect04 ==
    /\ pc = "start" /\ script = S04
    /\ \E outcome \in {"ok", "connect failed", "count failed"} :
         CASE outcome = "ok" ->
                /\ conn' = "open"
                /\ all_results' = EmptyDict
                /\ pc' = "call"
                /\ UNCHANGED <<exception, exit_code>>
           [] outcome = "connect failed" ->
                /\ \E c \in Causes : Uncaught(c)
                /\ UNCHANGED <<conn, all_results>>
           [] outcome = "count failed" ->
                /\ conn' = "open"
                /\ \E c \in Causes : Uncaught(c)
                /\ UNCHANGED all_results
    /\ UNCHANGED <<config, tools, db, qi, frame, console, results_list, summary, report,
                   any_failed, unclosed>>

\* postgresql_benchmark: connect inside try (print and return on failure), then
\* the two COUNT(*) queries outside any try
ConnectPg ==
    /\ pc = "start" /\ script = SPG
    /\ \E outcome \in {"ok", "connect failed", "verify failed"} :
         CASE outcome = "ok" ->
                /\ conn' = "open"
                /\ pc' = "call"
                /\ UNCHANGED <<console, exception, exit_code>>
           [] outcome = "connect failed" ->
                /\ \E c \in Causes : console' = console \cup {Line("connection failed", c)}
                /\ pc' = "done"
                /\ exit_code' = Some(0)
                /\ UNCHANGED <<conn, exception>>
           [] outcome = "verify failed" ->
                /\ conn' = "open"
                /\ \E c \in Causes : Uncaught(c)
                /\ UNCHANGED console
    /\ UNCHANGED <<config, tools, db, qi, frame, all_results, results_list, summary, report,
                   any_failed, unclosed>>

\* 01, 02, 03: all_results[backend] = {} before the backend's loop
BeginSection ==
    /\ pc = "section"
    /\ all_results' = DictSet(all_results, Backends[db], EmptyDict)
    /\ qi' = 1
    /\ pc' = "call"
    /\ UNCHANGED <<config, tools, db, frame, console, results_list, summary, report,
                   exception, exit_code,
                   conn, any_failed, unclosed>>

(* ----------------------------------------------------------------- runners *)
\* main prints "Running: ..." and calls the runner for the query it is at: the
\* runner's locals are fresh; a query_info[...] argument that QUERIES lacks
\* raises KeyError in main, outside any try
Call ==
    /\ pc = "call"
    /\ console' = {}
    /\ IF KeyMissing(qi, CallVariants(Backends[db]))
       THEN /\ Uncaught("KeyError")
            /\ UNCHANGED frame
       ELSE /\ pc' = "run"
            /\ phase' = "baseline" /\ i' = 0
            /\ latencies' = <<>> /\ comparand_latencies' = <<>>
            /\ results' = None /\ result' = None
            /\ trace' = <<>>
            /\ UNCHANGED <<exception, exit_code>>
    /\ UNCHANGED <<config, tools, db, qi, all_results, results_list, summary, report,
                   conn, any_failed, unclosed>>

\* what the sampler hands back for an execution that took `elapsed` seconds
Sample(elapsed) == IF script = SPG THEN RunQueryElapsed(elapsed) ELSE LatencyMs(elapsed)

Executed(ok, elapsed, rows) ==
    [phase |-> phase, ok |-> ok, elapsed |-> elapsed, rows |-> rows]

\* 01, 02, 03: the direct query functions connect on every call
\* (02's Splunk path runs a command instead; 04 and postgresql_benchmark use
\* main's connection)
OpensPerCall == script \in {S01, S02, S03} /\ ~(script = S02 /\ phase = "comparand")

\* whether a call of the query function leaves the connection it opened open:
\* query_clickhouse never closes its client; query_postgresql and
\* query_starrocks close after fetchall, so not when execute raised (when
\* connect itself raised there is nothing to close)
LeftOpen(ok, cause) ==
    /\ OpensPerCall
    /\ IF ok THEN Backends[db] = "clickhouse" ELSE cause = "backend error"

\* postgresql_benchmark evaluates query_info['query'] inside the iteration's try
LookupInTry == script = SPG /\ KeyMissing(qi, {"query"})

\* an iteration that executes the query once to warm up and once more to time it
ExecOkAfterWarmUp ==
    /\ pc = "run" /\ i < iterations
    /\ ~LookupInTry
    /\ \E w \in durs, e \in durs, r \in rowset :
         /\ IF phase = "baseline"
            THEN /\ latencies' = Append(latencies, Sample(e))
                 /\ UNCHANGED comparand_latencies
            ELSE /\ comparand_latencies' = Append(comparand_latencies, Sample(e))
                 /\ UNCHANGED latencies
         /\ results' = IF script = S01 THEN Some(r) ELSE results
         /\ trace' = trace \o <<Executed(TRUE, w, r), Executed(TRUE, e, r)>>
    /\ unclosed' = (unclosed \/ LeftOpen(TRUE, ""))
    /\ i' = i + 1
    /\ UNCHANGED <<config, tools, pc, db, qi, phase, result, all_results, results_list,
                   console, summary, report, exception, exit_code,
                   conn, any_failed>>

\* one iteration whose execution succeeds: the latency is appended
ExecOk ==
    /\ pc = "run" /\ i < iterations
    /\ ~LookupInTry
    /\ \E e \in durs, r \in rowset :
         /\ IF phase = "baseline"
            THEN /\ latencies' = Append(latencies, Sample(e))
                 /\ UNCHANGED comparand_latencies
            ELSE /\ comparand_latencies' = Append(comparand_latencies, Sample(e))
                 /\ UNCHANGED latencies
         /\ results' = IF script = S01 THEN Some(r) ELSE results
         /\ trace' = Append(trace, Executed(TRUE, e, r))
    /\ unclosed' = (unclosed \/ LeftOpen(TRUE, ""))
    /\ i' = i + 1
    /\ UNCHANGED <<config, tools, pc, db, qi, phase, result, all_results, results_list,
                   console, summary, report, exception, exit_code,
                   conn, any_failed>>

\* one iteration whose execution raises inside the runner's try: print, return None
\* (01 run_benchmark, 02 direct loop, 03 both loops, postgresql_benchmark)
ExecRaiseCaught ==
    /\ pc = "run" /\ i < iterations
    /\ any_failed' = TRUE
    /\ UNCHANGED conn
    /\ script # S04
    /\ ~(script = S02 /\ phase = "comparand")
    /\ ~LookupInTry
    /\ \E c \in Causes, e \in durs :
         /\ console' = console \cup {Line("error", c)}
         /\ trace' = Append(trace, Executed(FALSE, e, 0))
         /\ unclosed' = (unclosed \/ LeftOpen(FALSE, c))
    /\ result' = None
    /\ pc' = "store"
    /\ UNCHANGED <<config, tools, db, qi, phase, i, latencies, comparand_latencies, results,
                   all_results, results_list, summary, report, exception, exit_code>>

\* postgresql_benchmark: query_info['query'] raises KeyError inside the try of the
\* first iteration, before anything is executed: print, return None
LookupRaiseCaught ==
    /\ pc = "run" /\ i < iterations
    /\ LookupInTry
    /\ console' = console \cup {Line("error", "KeyError")}
    /\ result' = None
    /\ pc' = "store"
    /\ UNCHANGED <<config, tools, db, qi, phase, i, latencies, comparand_latencies, results,
                   trace, all_results, results_list, summary, report, exception,
                   exit_code, conn, any_failed, unclosed>>

\* 04 benchmark_query has no try: client.query raising leaves benchmark_query and main
ExecRaiseUncaught ==
    /\ pc = "run" /\ i < iterations
    /\ any_failed' = TRUE
    /\ UNCHANGED <<conn, unclosed>>
    /\ script = S04
    /\ \E c \in Causes, e \in durs :
         /\ Uncaught(c)
         /\ trace' = Append(trace, Executed(FALSE, e, 0))
    /\ UNCHANGED <<config, tools, db, qi, phase, i, latencies, comparand_latencies, results,
                   result, all_results, results_list, console, summary, report>>

\* 02 query_via_splunk_dbxquery on a failed proxy command (non-zero return code,
\* timeout, any exception): prints, returns (None, latency_ms); the caller drops
\* the first component and appends the latency
ExecProxyFail ==
    /\ pc = "run" /\ i < iterations
    /\ any_failed' = TRUE
    /\ UNCHANGED <<conn, unclosed>>
    /\ script = S02 /\ phase = "comparand"
    /\ \E k \in ProxyFailures, e \in durs :
         /\ console' = console \cup {Line("dbxquery", k)}
         /\ comparand_latencies' =
                Append(comparand_latencies, QueryViaSplunkDbxquery(k, e).latency_ms)
         /\ trace' = Append(trace, Executed(FALSE, e, 0))
    /\ i' = i + 1
    /\ UNCHANGED <<config, tools, pc, db, qi, phase, latencies, results, result, all_results,
                   results_list, summary, report, exception, exit_code>>

\* the second loop entered as soon as the first has run one iteration
EnterComparandEarly ==
    /\ pc = "run" /\ i >= 1
    /\ TwoContexts /\ phase = "baseline"
    /\ phase' = "comparand"
    /\ i' = 0
    /\ UNCHANGED <<config, tools, pc, db, qi, latencies, comparand_latencies, results, result,
                   trace, all_results, results_list, console, summary, report,
                   exception, exit_code, conn, any_failed, unclosed>>

\* the first loop is over: the second loop (02, 03) or second call (04) starts;
\* 04 main evaluates query_info['parquet'] for the second call, outside any try
EnterComparand ==
    /\ pc = "run" /\ i = iterations
    /\ TwoContexts /\ phase = "baseline"
    /\ IF script = S04 /\ KeyMissing(qi, {"parquet"})
       THEN /\ UncaughtAt("KeyError", "call")
            /\ UNCHANGED <<phase, i>>
       ELSE /\ phase' = "comparand"
            /\ i' = 0
            /\ UNCHANGED <<pc, exception, exit_code>>
    /\ UNCHANGED <<config, tools, db, qi, latencies, comparand_latencies, results, result,
                   trace, all_results, results_list, console, summary, report,
                   conn, any_failed, unclosed>>

\* what the runner returns after its last loop (04: the entry main builds from
\* the two benchmark_query results)
ReturnValue ==
    CASE script = S01 -> Some(RunBenchmarkResult(latencies, results))
      [] script = S02 -> Some(RunOverheadResult(latencies, comparand_latencies))
      [] script = S03 -> Some(RunIcebergResult(latencies, comparand_latencies))
      [] script = S04 -> Some(ParquetEntry(qi, BenchmarkQueryResult(latencies),
                                           BenchmarkQueryResult(comparand_latencies)))
      [] script = SPG -> PgBenchmarkResult(qi, latencies, iterations)

\* the statistics of an empty list: min([]) raises ValueError (04, whose dict
\* starts with min), statistics.mean([]) raises StatisticsError (01, 02, 03)
EmptySampleError == IF script = S04 THEN "ValueError" ELSE "StatisticsError"

\* the code after the loops, outside any try: the statistics and the comparison
\* (postgresql_benchmark returns None for an empty list instead)
Reduce ==
    IF script # SPG /\ (latencies = <<>> \/ (TwoContexts /\ comparand_latencies = <<>>))
    THEN /\ Uncaught(EmptySampleError)
         /\ UNCHANGED result
    ELSE /\ result' = ReturnValue
         /\ pc' = "store"
         /\ UNCHANGED <<exception, exit_code>>

\* every loop ran to its end: build and return the result
RunnerReturn ==
    /\ pc = "run" /\ i = iterations
    /\ TwoContexts => phase = "comparand"
    /\ Reduce
    /\ UNCHANGED <<config, tools, db, qi, phase, i, latencies, comparand_latencies, results,
                   trace, all_results, results_list, console, summary, report,
                   conn, any_failed, unclosed>>

(* ------------------------------------------------- main: after the runner *)
\* the loop over QUERIES.items() moves on; after the last query, the next
\* backend section, or the summary
Advance ==
    IF qi < NumQueries
    THEN /\ qi' = qi + 1
         /\ pc' = "call"
         /\ UNCHANGED db
    ELSE IF db < Len(Backends)
         THEN /\ db' = db + 1
              /\ pc' = "section"
              /\ UNCHANGED qi
         ELSE /\ pc' = "summary"
              /\ UNCHANGED <<db, qi>>

\* 01, 02, 03: `if result: all_results[backend][query_id] = result` and the
\* result is printed (01: by print_result, which computes its own statistics);
\* 03 prints a "Skipping ..." line otherwise
StoreSectioned ==
    /\ pc = "store" /\ Sectioned
    /\ IF Truthy(result)
       THEN /\ all_results' = [all_results EXCEPT
                                 ![Backends[db]] = DictSet(@, qi, Value(result))]
            /\ console' =
                 IF script = S01
                 THEN console \cup {Line("result",
                          PrintResult(Value(result).latencies, Value(result).row_count))}
                 ELSE console
       ELSE /\ console' = IF script = S03 THEN console \cup {Line("skipping", "")}
                          ELSE console
            /\ UNCHANGED all_results
    /\ Advance
    /\ UNCHANGED <<config, tools, frame, results_list, summary, report, exception, exit_code,
                   conn, any_failed, unclosed>>

\* 04: all_results[query_id] = {...}, unconditionally
Store04 ==
    /\ pc = "store" /\ script = S04
    /\ all_results' = DictSet(all_results, qi, Value(result))
    /\ Advance
    /\ UNCHANGED <<config, tools, frame, console, results_list, summary, report, exception,
                   exit_code,
                   conn, any_failed, unclosed>>

\* postgresql_benchmark: `if result: results.append(result)`; conn.close() follows
\* the loop
StorePg ==
    /\ pc = "store" /\ script = SPG
    /\ results_list' = IF Truthy(result) THEN Append(results_list, Value(result))
                       ELSE results_list
    /\ Advance
    /\ conn' = IF qi = NumQueries THEN "closed" ELSE conn
    /\ UNCHANGED <<any_failed, unclosed>>
    /\ UNCHANGED <<config, tools, frame, console, all_results, summary, report, exception,
                   exit_code>>

(* ---------------------------------------------------------- main: summary *)
\* the query ids stored for backend d, in catalog order
StoredQueries(d) ==
    SelectSeq([q \in QUERIES |-> q], LAMBDA q : q \in DOMAIN all_results[d])

\* 01: per query, the average of every backend that has the query
Summary01 ==
    /\ pc = "summary" /\ script = S01
    /\ summary' = [q \in QUERIES |->
                     [d \in {b \in DOMAIN all_results : q \in DOMAIN all_results[b]} |->
                        all_results[d][q].avg_latency_ms]]
    /\ pc' = "save"
    /\ UNCHANGED <<config, tools, db, qi, frame, console, all_results, results_list, report,
                   exception, exit_code,
                   conn, any_failed, unclosed>>

\* 02: the summary line of backend d: means over all_results[d][q] for q in QUERIES.keys()
OverheadLine(d) ==
    [db               |-> d,
     avg_overhead_ms  |-> MeanRat([q \in QUERIES |-> all_results[d][q].overhead_ms]),
     avg_overhead_pct |-> MeanRat([q \in QUERIES |-> all_results[d][q].overhead_pct])]

\* 02: backends in order; all_results[db][q] raises KeyError for a query that was
\* not stored, after the lines of the backends before it were printed
Summary02 ==
    /\ pc = "summary" /\ script = S02
    /\ LET missing == {k \in 1 .. Len(Backends) :
                         \E q \in QUERIES : q \notin DOMAIN all_results[Backends[k]]}
           upto == IF missing = {} THEN Len(Backends)
                   ELSE (CHOOSE k \in missing : \A m \in missing : k <= m) - 1
       IN  /\ summary' = [k \in 1 .. upto |-> OverheadLine(Backends[k])]
           /\ IF missing = {}
              THEN /\ pc' = "save"
                   /\ UNCHANGED <<exception, exit_code>>
              ELSE Uncaught("KeyError")
    /\ UNCHANGED <<config, tools, db, qi, frame, console, all_results, results_list, report,
                   conn, any_failed, unclosed>>

\* 03: per engine with a non-empty dict, the mean slowdown of its stored queries
Summary03 ==
    /\ pc = "summary" /\ script = S03
    /\ LET engines == SelectSeq(Backends, LAMBDA d : DOMAIN all_results[d] # {})
       IN  summary' = [k \in 1 .. Len(engines) |->
                         [db |-> engines[k],
                          avg_slowdown |->
                            MeanRat([n \in 1 .. Len(StoredQueries(engines[k])) |->
                              all_results[engines[k]][StoredQueries(engines[k])[n]].slowdown_factor])]]
    /\ pc' = "save"
    /\ UNCHANGED <<config, tools, db, qi, frame, console, all_results, results_list, report,
                   exception, exit_code,
                   conn, any_failed, unclosed>>

\* 04: means over all_results.values()
Summary04 ==
    /\ pc = "summary" /\ script = S04
    /\ summary' = << [avg_native_ms       |-> MeanRat([q \in QUERIES |-> all_results[q].native.avg_ms]),
                      avg_parquet_ms      |-> MeanRat([q \in QUERIES |-> all_results[q].parquet.avg_ms]),
                      avg_overhead_ms     |-> MeanRat([q \in QUERIES |-> all_results[q].overhead_ms]),
                      avg_overhead_pct    |-> MeanRat([q \in QUERIES |-> all_results[q].overhead_pct]),
                      avg_slowdown_factor |-> MeanRat([q \in QUERIES |-> all_results[q].slowdown_factor])] >>
    /\ pc' = "save"
    /\ UNCHANGED <<config, tools, db, qi, frame, console, all_results, results_list, report,
                   exception, exit_code,
                   conn, any_failed, unclosed>>

\* postgresql_benchmark: "Benchmark Results Summary", one line per result
SummaryPg ==
    /\ pc = "summary" /\ script = SPG
    /\ summary' = [k \in 1 .. Len(results_list) |->
                     [name |-> results_list[k].name, min |-> results_list[k].min,
                      avg |-> results_list[k].avg, max |-> results_list[k].max]]
    /\ pc' = "analysis"
    /\ UNCHANGED <<config, tools, db, qi, frame, console, all_results, results_list, report,
                   exception, exit_code,
                   conn, any_failed, unclosed>>

\* min(results, key=avg) / max(results, key=avg): the first such element
Fastest(rs) ==
    rs[CHOOSE k \in 1 .. Len(rs) :
         /\ \A m \in 1 .. Len(rs) : RatLeq(rs[k].avg, rs[m].avg)
         /\ \A m \in 1 .. k - 1 : RatLess(rs[k].avg, rs[m].avg)]
Slowest(rs) ==
    rs[CHOOSE k \in 1 .. Len(rs) :
         /\ \A m \in 1 .. Len(rs) : RatLeq(rs[m].avg, rs[k].avg)
         /\ \A m \in 1 .. k - 1 : RatLess(rs[m].avg, rs[k].avg)]

\* postgresql_benchmark: "Performance Analysis"; min() of an empty list raises
\* ValueError; then "Environment Information" and "Benchmark Complete"
AnalysisPg ==
    /\ pc = "analysis"
    /\ IF results_list = <<>>
       THEN /\ Uncaught("ValueError")
            /\ UNCHANGED summary
       ELSE /\ summary' = Append(summary,
                 [total_time |-> RatSeqSum([k \in 1 .. Len(results_list) |-> results_list[k].avg]),
                  fastest    |-> Fastest(results_list).name,
                  slowest    |-> Slowest(results_list).name])
            /\ pc' = "done"
            /\ exit_code' = Some(0)
            /\ UNCHANGED exception
    /\ UNCHANGED <<config, tools, db, qi, frame, console, all_results, results_list, report,
                   conn, any_failed, unclosed>>

(* ------------------------------------------------------------- main: save *)
\* what json.dump is given
ReportContent ==
    IF script = S04
    THEN [metadata |-> [iterations |-> ITERATIONS],
          results  |-> all_results,
          summary  |-> summary[1]]
    ELSE all_results

\* a failed write that is swallowed: the run ends as if the report were written
SaveIgnoringFailure ==
    /\ pc = "save"
    /\ \E ok \in BOOLEAN :
         /\ report' = IF ok THEN Some(ReportContent) ELSE report
         /\ pc' = "done"
         /\ exit_code' = Some(0)
         /\ UNCHANGED exception
    /\ UNCHANGED <<config, tools, db, qi, frame, console, all_results, results_list, summary,
                   conn, any_failed, unclosed>>

\* open(output_file, 'w') and json.dump, outside any try; then the closing prints
Save ==
    /\ pc = "save"
    /\ \E ok \in BOOLEAN :
         IF ok
         THEN /\ report' = Some(ReportContent)
              /\ pc' = "done"
              /\ exit_code' = Some(0)
              /\ UNCHANGED exception
         ELSE /\ Uncaught("OSError")
              /\ UNCHANGED report
    /\ UNCHANGED <<config, tools, db, qi, frame, console, all_results, results_list, summary,
                   conn, any_failed, unclosed>>

(* ----------------------------------------------------------- specification *)
Next ==
    \/ StartSections \/ Connect04 \/ ConnectPg \/ BeginSection
    \/ Call \/ ExecOk \/ ExecRaiseCaught \/ LookupRaiseCaught
    \/ ExecRaiseUncaught \/ ExecProxyFail
    \/ EnterComparand \/ RunnerReturn
    \/ StoreSectioned \/ Store04 \/ StorePg
    \/ Summary01 \/ Summary02 \/ Summary03 \/ Summary04 \/ SummaryPg \/ AnalysisPg
    \/ Save

Spec == Init /\ [][Next]_vars

(* ------------------------------------------- the statistics, on any samples *)
\* the longest list of latencies
MaxSamples == 3

\* the latencies an execution can have, in milliseconds
SampleValues == {0, 10, 20, 30}
SampleLists == UNION {[1 .. n -> SampleValues] : n \in 0 .. MaxSamples}

\* a runner whose loops have ended without a failure, for any iteration count
\* and any latencies the executions can have had
StatsInit ==
    /\ script \in Scripts
    /\ skip_starrocks = FALSE
    /\ durs = Elapsed /\ rowset = Rows /\ absent = {}
    /\ iterations \in 0 .. MaxSamples
    /\ pc = "run" /\ db = 1 /\ qi = 1
    /\ phase = (IF TwoContexts THEN "comparand" ELSE "baseline")
    /\ i = iterations
    /\ latencies \in {s \in SampleLists : Len(s) = iterations}
    /\ comparand_latencies \in (IF TwoContexts
                                THEN {s \in SampleLists : Len(s) = iterations}
                                ELSE {<<>>})
    /\ results \in (IF script = S01 /\ iterations > 0
                    THEN {Some(r) : r \in Rows} ELSE {None})
    /\ result = None
    /\ all_results = (IF Sectioned THEN DictSet(EmptyDict, Backends[1], EmptyDict)
                      ELSE EmptyDict)
    /\ results_list = <<>>
    /\ console = {} /\ summary = <<>> /\ trace = <<>>
    /\ report = None
    /\ exception = None /\ exit_code = None
    /\ conn = (IF script \in {S04, SPG} THEN "open" ELSE "none")
    /\ any_failed = FALSE /\ unclosed = FALSE
    /\ ValidationIdle /\ SearchIdle /\ LoadIdle

\* the runner returns and main takes the result
NextStats == RunnerReturn \/ StoreSectioned \/ Store04 \/ StorePg

SpecStats == StatsInit /\ [][NextStats]_vars

(* ------------------------------------------- one call of a runner, any timing *)
\* main has just called the runner for the first query: every execution can
\* take any elapsed time and return any number of rows (row counts are kept
\* only by 01 run_benchmark), or fail
RunnerInit ==
    /\ script \in Scripts
    /\ skip_starrocks = FALSE
    /\ durs = Elapsed
    /\ rowset = (IF script = S01 THEN Rows ELSE {0})
    /\ absent = {}
    /\ iterations \in 1 .. MaxSamples
    /\ pc = "run" /\ db = 1 /\ qi = 1
    /\ phase = "baseline" /\ i = 0
    /\ latencies = <<>> /\ comparand_latencies = <<>>
    /\ results = None /\ result = None
    /\ all_results = (IF Sectioned THEN DictSet(EmptyDict, Backends[1], EmptyDict)
                      ELSE EmptyDict)
    /\ results_list = <<>>
    /\ console = {} /\ summary = <<>> /\ trace = <<>>
    /\ report = None
    /\ exception = None /\ exit_code = None
    /\ conn = (IF script \in {S04, SPG} THEN "open" ELSE "none")
    /\ any_failed = FALSE /\ unclosed = FALSE
    /\ ValidationIdle /\ SearchIdle /\ LoadIdle

\* the iterations of the runner's loops, then its return
NextRunner ==
    \/ ExecOk \/ ExecRaiseCaught \/ ExecRaiseUncaught \/ ExecProxyFail
    \/ EnterComparand \/ RunnerReturn

SpecRunner == RunnerInit /\ [][NextRunner]_vars

(* ------------------------------------------------------------ the tools *)
\* what a tool's main leaves alone: everything of the benchmark scripts
benchmark == <<config, db, qi, frame, all_results, results_list, console, summary,
               report, conn, any_failed, unclosed>>

\* a tool's process starts: no benchmark is configured or running
ToolInit(name) ==
    /\ script = name
    /\ skip_starrocks = FALSE
    /\ durs = {} /\ rowset = {} /\ absent = {}
    /\ iterations = 0
    /\ InitRun

(* ------------------------------------------ tests/validate_environment.py *)
\* the services main checks, in order
Services == <<"postgresql", "clickhouse", "starrocks_fe", "splunk">>

\* what a check function can do: return True, return False, or raise.
\* check_postgresql compares the result of SELECT 1 with 1; check_clickhouse
\* and check_starrocks_fe compare the response body; check_splunk catches
\* everything and returns False
CheckFunction(name) ==
    CASE name = "postgresql"   -> {"True", "raise"}
      [] name = "clickhouse"   -> {"True", "False", "raise"}
      [] name = "starrocks_fe" -> {"True", "False", "raise"}
      [] name = "splunk"       -> {"True", "False"}

\* check_service: the status it returns for what check_func did
\* (`if expected_value and result != expected_value: return False`)
CheckService(returned, expected_value) ==
    IF returned = "raise" THEN FALSE
    ELSE IF expected_value # None /\ Value(expected_value) # returned THEN FALSE
    ELSE TRUE

\* main: the section of the next service: check_service without an expected
\* value, then the row count (postgresql, clickhouse: a failure clears
\* all_healthy; starrocks_fe: a failure only warns; splunk: no row count)
ServiceSection ==
    /\ script = VAL /\ pc \in {"start", "services"}
    /\ LET k    == Len(checks) + 1
           name == Services[k]
       IN  /\ \E returned \in CheckFunction(name), count_ok \in BOOLEAN :
                LET status == CheckService(returned, None)
                IN  /\ checks' = Append(checks, returned)
                    /\ statuses' = Append(statuses, status)
                    /\ all_healthy' =
                         IF ~status THEN FALSE
                         ELSE IF name \in {"postgresql", "clickhouse"}
                              THEN all_healthy /\ count_ok
                              ELSE all_healthy
           /\ pc' = IF k = Len(Services) THEN "baseline" ELSE "services"
    /\ UNCHANGED <<benchmark, search, load, result, exception, exit_code>>

\* main: "Performance Baseline": the PostgreSQL and the ClickHouse simple
\* query, each in its own try; a failure clears all_healthy
PerformanceBaseline ==
    /\ script = VAL /\ pc = "baseline"
    /\ \E pg_ok \in BOOLEAN, ch_ok \in BOOLEAN :
         all_healthy' = (all_healthy /\ pg_ok /\ ch_ok)
    /\ pc' = "exit"
    /\ UNCHANGED <<benchmark, search, load, checks, statuses, result, exception,
                   exit_code>>

\* main: sys.exit(0) if all_healthy else sys.exit(1)
ValidateExit ==
    /\ script = VAL /\ pc = "exit"
    /\ exit_code' = Some(IF all_healthy THEN 0 ELSE 1)
    /\ pc' = "done"
    /\ UNCHANGED <<benchmark, tools, result, exception>>

ValidateInit == ToolInit(VAL) /\ ValidationIdle /\ SearchIdle /\ LoadIdle

NextValidate == ServiceSection \/ PerformanceBaseline \/ ValidateExit

SpecValidate == ValidateInit /\ [][NextValidate]_vars

(* ------------------------------------------------ scripts/test_dbconnect.py *)
\* the dispatchState values a status request can read
DispatchStates == {"QUEUED", "RUNNING", "DONE", "FAILED"}

\* run_search: POST /services/search/jobs; any status but 201 prints and
\* returns None; an exception of requests is caught nowhere
CreateJob ==
    /\ script = TDB /\ pc = "start"
    /\ \E outcome \in {"201", "other status", "raise"} :
         CASE outcome = "201" ->
                /\ sid' = Some("sid")
                /\ pc' = "poll"
                /\ UNCHANGED <<search_result, exception, exit_code>>
           [] outcome = "other status" ->
                /\ search_result' = None
                /\ pc' = "returned"
                /\ UNCHANGED <<sid, exception, exit_code>>
           [] outcome = "raise" ->
                /\ Uncaught("ConnectionError")
                /\ UNCHANGED <<sid, search_result>>
    /\ UNCHANGED <<benchmark, validation, load, result, polls, dispatch_state,
                   observed, fetched>>

\* one pass of `for i in range(30)`: GET the job; on status 200 read the
\* dispatchState: DONE breaks, FAILED returns None; otherwise sleep and go on
Poll ==
    /\ script = TDB /\ pc = "poll" /\ polls < MAX_POLLS
    /\ polls' = polls + 1
    /\ \E answer \in {"other status"} \cup DispatchStates :
         IF answer = "other status"
         THEN /\ pc' = "poll"
              /\ UNCHANGED <<dispatch_state, observed, search_result>>
         ELSE /\ dispatch_state' = answer
              /\ observed' = observed \cup {answer}
              /\ pc' = CASE answer = "DONE"   -> "fetch"
                         [] answer = "FAILED" -> "returned"
                         [] OTHER             -> "poll"
              /\ search_result' = None
    /\ UNCHANGED <<benchmark, validation, load, result, sid, fetched, exception,
                   exit_code>>

\* the jump out of the loop to the results request, whatever the job's state is
TimedOutFetchesAnyway ==
    /\ script = TDB /\ pc = "poll" /\ polls = MAX_POLLS
    /\ pc' = "fetch"
    /\ UNCHANGED <<benchmark, tools, result, exception, exit_code>>

\* the else of the for loop: 30 passes without a break: "Search timed out",
\* return None
TimedOut ==
    /\ script = TDB /\ pc = "poll" /\ polls = MAX_POLLS
    /\ search_result' = None
    /\ pc' = "returned"
    /\ UNCHANGED <<benchmark, validation, load, result, sid, polls, dispatch_state,
                   observed, fetched, exception, exit_code>>

\* GET .../results: the parsed body on status 200, None otherwise
FetchResults ==
    /\ script = TDB /\ pc = "fetch"
    /\ fetched' = TRUE
    /\ \E status_code \in {200, 500} :
         search_result' = IF status_code = 200 THEN Some("results") ELSE None
    /\ pc' = "returned"
    /\ UNCHANGED <<benchmark, validation, load, result, sid, polls, dispatch_state,
                   observed, exception, exit_code>>

SearchInit == ToolInit(TDB) /\ ValidationIdle /\ SearchIdle /\ LoadIdle

NextSearch == CreateJob \/ Poll \/ TimedOut \/ FetchResults

SpecSearch == SearchInit /\ [][NextSearch]_vars

(* ------------------------------ scripts/load_clickhouse_from_postgres.py *)
\* the sizes of the source table: whole batches, one row more, one row less
SourceSizes ==
    {k * BATCH_SIZE + r : k \in 0 .. MaxBatches, r \in {0, 1, BATCH_SIZE - 1}}

\* the SELECT without its OFFSET: the first rows of the table every time
SelectBatchWithoutOffset(n, off) ==
    [from |-> 0, to |-> IF BATCH_SIZE < n THEN BATCH_SIZE ELSE n]

\* SELECT ... ORDER BY id LIMIT BATCH_SIZE OFFSET off on a table of n rows:
\* the rows at positions from .. to - 1 in id order (none when to <= from)
SelectBatch(n, off) ==
    [from |-> off, to |-> IF off + BATCH_SIZE < n THEN off + BATCH_SIZE ELSE n]

\* connect to both stores, total = COUNT(*), offset = 0, loaded = 0
CountRows ==
    /\ script = LCH /\ pc = "start"
    /\ \E ok \in BOOLEAN :
         IF ok
         THEN /\ total' = source_rows
              /\ offset' = 0 /\ loaded' = 0
              /\ pc' = IF 0 < source_rows THEN "loop" ELSE "verify"
              /\ UNCHANGED <<exception, exit_code>>
         ELSE /\ \E c \in Causes : Uncaught(c)
              /\ UNCHANGED <<total, offset, loaded>>
    /\ UNCHANGED <<benchmark, validation, search, result, inserted, source_rows,
                   changed>>

\* one pass of `while offset < total`: fetch a batch; `if not rows: break`;
\* insert it, loaded += len(rows), offset += BATCH_SIZE; an exception of the
\* fetch or the insert leaves load_security_logs (main prints and re-raises)
LoadBatch ==
    /\ script = LCH /\ pc = "loop" /\ offset < total
    /\ LET rows == SelectBatch(source_rows, offset)
       IN  IF rows.to <= rows.from
           THEN /\ pc' = "verify"
                /\ UNCHANGED <<offset, loaded, inserted, exception, exit_code>>
           ELSE \E ok \in BOOLEAN :
                  IF ok
                  THEN /\ inserted' = Append(inserted, rows)
                       /\ loaded' = loaded + (rows.to - rows.from)
                       /\ offset' = offset + BATCH_SIZE
                       /\ pc' = IF offset' < total THEN "loop" ELSE "verify"
                       /\ UNCHANGED <<exception, exit_code>>
                  ELSE /\ \E c \in Causes : Uncaught(c)
                       /\ UNCHANGED <<offset, loaded, inserted>>
    /\ UNCHANGED <<benchmark, validation, search, result, total, source_rows, changed>>

\* another client deletes the last rows of the source table during the load
DeleteRows ==
    /\ script = LCH /\ pc = "loop"
    /\ \E n \in SourceSizes : n < source_rows /\ source_rows' = n
    /\ changed' = TRUE
    /\ UNCHANGED <<benchmark, validation, search, result, pc, total, offset, loaded,
                   inserted, exception, exit_code>>

\* "Loaded ... rows", the verifying count in ClickHouse, pg_cursor.close(),
\* pg_conn.close(); main prints "Data load complete"
VerifyLoad ==
    /\ script = LCH /\ pc = "verify"
    /\ \E ok \in BOOLEAN :
         IF ok
         THEN /\ pc' = "done"
              /\ exit_code' = Some(0)
              /\ UNCHANGED exception
         ELSE \E c \in Causes : Uncaught(c)
    /\ UNCHANGED <<benchmark, tools, result>>

LoadInit ==
    /\ ToolInit(LCH) /\ ValidationIdle /\ SearchIdle
    /\ source_rows \in SourceSizes
    /\ total = 0 /\ offset = 0 /\ loaded = 0 /\ inserted = <<>>
    /\ changed = FALSE

NextLoad == CountRows \/ LoadBatch \/ DeleteRows \/ VerifyLoad

SpecLoad == LoadInit /\ [][NextLoad]_vars

(* ------------------------------------------------------------------ claims *)
\* positions in the current runner call's trace of the failed / successful
\* executions of context p
FailedIn(p) == {k \in 1 .. Len(trace) : trace[k].phase = p /\ ~trace[k].ok}
OkIn(p) == {k \in 1 .. Len(trace) : trace[k].phase = p /\ trace[k].ok}
SomeFailed == \E k \in 1 .. Len(trace) : ~trace[k].ok
Contexts == {"baseline", "comparand"}

\* C1: once the report of a run over the catalog is written, every query
\* identifier of the catalog has an entry in it under every backend of the run,
\* whatever executions failed (a failed query is never absent from the report).
C1_EveryQueryReported ==
    (report # None /\ Sectioned) =>
        \A k \in 1 .. Len(Backends), q \in QUERIES :
            q \in DOMAIN Value(report)[Backends[k]]

\* C2: a failed execution of a query never keeps the queries after it from
\* running: the run is not ended by an execution error while queries remain, and
\* a query whose own executions all succeeded gets its result (DONE).
C2_FailureDoesNotBlock ==
    /\ (pc = "crashed" /\ Value(exception).at = "run") =>
           (qi = NumQueries /\ db = Len(Backends))
    /\ (pc = "store" /\ ~SomeFailed) => Truthy(result)

\* C3: no query-execution error aborts the run: once benchmarking has begun, the
\* only exception that leaves main is the failure to write the report, so every
\* run gets through its summary to the report write.
C3_OnlyReportWriteErrorPropagates ==
    exception # None => Value(exception).at \in {"start", "save"}

\* C4: the iterated runner never raises to its caller: no exception leaves main
\* from inside a runner's iteration.
C4_RunnerNeverRaises ==
    exception # None => Value(exception).at # "run"

\* C5: abort on first failure: within one runner call (both contexts of the
\* query) a failed execution is the last execution; nothing is executed after it.
C5_AbortOnFirstFailure ==
    \A k \in 1 .. Len(trace) : ~trace[k].ok => k = Len(trace)

\* C6: when an execution of a context fails after earlier executions of that
\* context succeeded, the latencies collected are discarded: the runner returns
\* no result, and no entry for the query reaches the report.
PartialSampleSet ==
    \E k \in 1 .. Len(trace) :
        /\ ~trace[k].ok
        /\ \E j \in 1 .. k - 1 : trace[j].phase = trace[k].phase /\ trace[j].ok
C6_PartialSampleSetDiscarded ==
    /\ (pc = "store" /\ PartialSampleSet) => result = None
    /\ (report # None /\ Sectioned /\ PartialSampleSet) =>
           qi \notin DOMAIN Value(report)[Backends[db]]

\* C7: a (query, context) pair none of whose executions succeeded produces no
\* statistics: the runner returns no result for it, and the report holds no
\* entry (mean, overhead, latency list) for it.
NoSuccessfulIteration == \E p \in Contexts : FailedIn(p) # {} /\ OkIn(p) = {}
C7_NoStatisticsWithoutSuccess ==
    /\ (pc = "store" /\ NoSuccessfulIteration) => result = None
    /\ (report # None /\ Sectioned /\ NoSuccessfulIteration) =>
           qi \notin DOMAIN Value(report)[Backends[db]]

\* C8: the sampler never hands back the latency of a failed execution as a
\* sample: the latencies a runner has collected for a context are exactly those
\* of the context's successful executions.
C8_SamplerDoesNotSwallow ==
    /\ Len(latencies) = Cardinality(OkIn("baseline"))
    /\ Len(comparand_latencies) = Cardinality(OkIn("comparand"))

\* C9: a run that got to benchmarking and did not fail to write its report exits
\* with status 0 if and only if no execution of any query failed.
C9_ExitCodeReflectsFailures ==
    ( /\ exit_code # None
      /\ ~(script \in {S04, SPG} /\ conn = "none")
      /\ exception # None => Value(exception).at \notin {"start", "save"} )
    => (exit_code = Some(0) <=> ~any_failed)

\* C10: when main takes the result of a runner call in which an execution
\* failed, the query gets an entry in the results to be persisted, and the entry
\* records the cause that was printed for the failing execution.
C10_FailureCauseInReport ==
    [][(pc = "store" /\ Sectioned /\ SomeFailed) =>
          /\ qi \in DOMAIN all_results'[Backends[db]]
          /\ "cause" \in DOMAIN all_results'[Backends[db]][qi]
          /\ \E l \in console : l.cause = all_results'[Backends[db]][qi].cause]_vars

\* the text keys the run's backends use (01 with --skip-starrocks never reads
\* the starrocks texts)
SelectedVariants ==
    UNION {CallVariants(Backends[k]) : k \in 1 .. Len(Backends)}
        \cup (IF script = S04 THEN {"parquet"} ELSE {})
        \cup (IF script = SPG THEN {"query"} ELSE {})

IsFraction(r, x, y) == r.num * y = x * r.den

\* C12: when a two-context runner returns and the baseline mean b is positive,
\* the overhead it reports is c - b, the percentage (c - b) / b * 100 and the
\* slowdown c / b, where b is the mean of the direct / native latencies and c
\* the mean of the proxied / Iceberg / Parquet latencies (02 reports the first
\* two, 03 the third, 04 all three); b = 100, c = 150 gives 50, 50 and 3/2.
C12_ComparatorFormulas ==
    /\ (pc = "store" /\ TwoContexts /\ SeqSum(latencies) > 0) =>
          LET r  == Value(result)
              sb == SeqSum(latencies)
              sc == SeqSum(comparand_latencies)
          IN  /\ script \in {S02, S04} =>
                    /\ IsFraction(r.overhead_ms, sc - sb, iterations)
                    /\ IsFraction(r.overhead_pct, 100 * (sc - sb), sb)
              /\ script \in {S03, S04} => IsFraction(r.slowdown_factor, sc, sb)
    /\ OverheadMs(RatInt(100), RatInt(150)) = RatInt(50)
    /\ OverheadPct(RatInt(100), RatInt(150)) = RatInt(50)
    /\ SlowdownFactor(RatInt(100), RatInt(150)) = [num |-> 3, den |-> 2]

C12_Witness ==
    /\ pc = "store" /\ script = S04
    /\ latencies = <<10, 20>> /\ comparand_latencies = <<20, 30>>
    /\ Value(result).overhead_ms = RatInt(10)

\* C13: when the baseline mean is 0 (every baseline latency is 0), the runner
\* still returns its result, no error is raised, and the percentage overhead
\* and the slowdown factor it reports are 0 whatever the comparand latencies are.
C13_ZeroBaselineConvention ==
    (/\ pc \in {"store", "crashed"}
     /\ TwoContexts /\ iterations > 0 /\ SeqSum(latencies) = 0) =>
        /\ pc = "store" /\ result # None
        /\ script \in {S02, S04} => Value(result).overhead_pct = RatInt(0)
        /\ script \in {S03, S04} => Value(result).slowdown_factor = RatInt(0)

C13_Witness ==
    /\ pc = "store" /\ script = S04
    /\ latencies = <<0, 0>> /\ comparand_latencies = <<10, 20>>
    /\ Value(result).slowdown_factor = RatInt(0)
    /\ Value(result).overhead_ms = RatInt(15)

\* the standard deviations a returned result holds (04: both contexts)
StddevsOf(r) ==
    IF script = S04 THEN {r.native.stddev_ms, r.parquet.stddev_ms} ELSE {r.stddev}
Zero == SqrtOf(RatInt(0))

Between(lo, r, hi) == lo * r.den <= r.num /\ r.num <= hi * r.den

\* C15: the statistics a runner returns for a non-empty list of latencies
\* satisfy min <= mean <= max, and min <= median <= max where a median is
\* reported (04 and postgresql_benchmark; 01 reports no median).
C15_MeanAndMedianWithinRange ==
    (pc = "store" /\ result # None /\ script \in {S01, S04, SPG}) =>
        LET r == Value(result)
        IN  CASE script = S01 ->
                   Between(r.min_latency_ms, r.avg_latency_ms, r.max_latency_ms)
              [] script = S04 ->
                   \A c \in {r.native, r.parquet} :
                       /\ Between(c.min_ms, c.avg_ms, c.max_ms)
                       /\ Between(c.min_ms, c.median_ms, c.max_ms)
              [] script = SPG ->
                   /\ Between(r.min, r.avg, r.max)
                   /\ Between(r.min, r.median, r.max)

C15_Witness ==
    /\ pc = "store" /\ script = SPG
    /\ latencies = <<30, 0, 10>>
    /\ Value(result).min = 0 /\ Value(result).max = 30
    /\ Value(result).median = RatInt(10)
    /\ Value(result).avg = [num |-> 40, den |-> 3]

\* C16: for the latencies [10, 20, 30] every script that reports a standard
\* deviation reports 10, the sample standard deviation (divisor n - 1), next to
\* min 10, max 30, mean 20, median 20 and 3 samples: 04 and
\* postgresql_benchmark in the result, 01 in what print_result prints (no median).
C16_TenTwentyThirty ==
    /\ (pc = "store" /\ script = S04 /\ latencies = <<10, 20, 30>>) =>
          LET c == Value(result).native
          IN  /\ c.min_ms = 10 /\ c.max_ms = 30
              /\ c.avg_ms = RatInt(20) /\ c.median_ms = RatInt(20)
              /\ c.stddev_ms = SqrtOf(RatInt(10 * 10))
              /\ Len(c.latencies) = 3
    /\ (pc = "store" /\ script = SPG /\ latencies = <<10, 20, 30>>) =>
          LET r == Value(result)
          IN  /\ r.min = 10 /\ r.max = 30
              /\ r.avg = RatInt(20) /\ r.median = RatInt(20)
              /\ r.stddev = SqrtOf(RatInt(10 * 10))
              /\ r.iterations = 3
    /\ (pc = "call" /\ qi = 2 /\ script = S01 /\ latencies = <<10, 20, 30>>) =>
          \E l \in console :
              /\ l.kind = "result"
              /\ l.cause.min_latency = 10 /\ l.cause.max_latency = 30
              /\ l.cause.avg_latency = RatInt(20)
              /\ l.cause.std_dev = SqrtOf(RatInt(10 * 10))

C16_Witness ==
    /\ pc = "call" /\ qi = 2 /\ script = S01 /\ latencies = <<10, 20, 30>>
    /\ \E l \in console : l.kind = "result" /\ l.cause.std_dev = SqrtOf(RatInt(100))

\* the list s in the order given by the permutation p of its positions
Reordered(s, p) == [k \in 1 .. Len(s) |-> s[p[k]]]

\* min, max, mean, median, stddev and count of a 04 benchmark_query result
Aggregates(c) ==
    [min |-> c.min_ms, max |-> c.max_ms, mean |-> c.avg_ms, median |-> c.median_ms,
     stddev |-> c.stddev_ms, count |-> Len(c.latencies)]

\* C17: the statistics a runner returns do not depend on the order in which the
\* latencies were collected: reducing any reordering of the same latencies
\* gives the same min, max, mean, median, stddev and count (04 for both of its
\* lists, postgresql_benchmark for its one).
C17_OrderIndependent ==
    (pc = "store" /\ result # None /\ script \in {S04, SPG}) =>
        \A p \in Permutations(1 .. iterations) :
            IF script = S04
            THEN /\ Aggregates(BenchmarkQueryResult(Reordered(latencies, p)))
                      = Aggregates(Value(result).native)
                 /\ Aggregates(BenchmarkQueryResult(Reordered(comparand_latencies, p)))
                      = Aggregates(Value(result).parquet)
            ELSE PgBenchmarkResult(qi, Reordered(latencies, p), iterations) = result

C17_Witness ==
    /\ pc = "store" /\ script = SPG
    /\ latencies = <<30, 10, 20>>
    /\ result = PgBenchmarkResult(qi, <<10, 20, 30>>, iterations)
    /\ Value(result).median = RatInt(20)

\* the executions of context p in a trace
ExecutionsIn(t, p) == {k \in 1 .. Len(t) : t[k].phase = p}

\* C19: executions are strictly sequential. Every execution happens inside the
\* runner call of the pair main is at; an execution in the comparand context
\* starts only after all N baseline executions of the query, and none in the
\* baseline context follows one in the comparand context; a two-context result
\* (with its comparison) is returned only after N executions in each context;
\* and main moves to another query or backend only after the runner returned.
C19_StrictlySequential ==
    [][/\ (trace' # trace /\ trace' # <<>>) =>
             /\ pc = "run" /\ qi' = qi /\ db' = db
             /\ trace'[Len(trace')].phase = "comparand" =>
                    Cardinality(ExecutionsIn(trace, "baseline")) = iterations
             /\ trace'[Len(trace')].phase = "baseline" =>
                    ExecutionsIn(trace, "comparand") = {}
       /\ (pc = "run" /\ pc' = "store" /\ TwoContexts /\ result' # None) =>
             /\ Cardinality(ExecutionsIn(trace, "baseline")) = iterations
             /\ Cardinality(ExecutionsIn(trace, "comparand")) = iterations
             /\ Len(latencies) = iterations
             /\ Len(comparand_latencies) = iterations
       /\ (qi' # qi \/ db' # db) => pc \in {"store", "section"}
      ]_vars

C19_Witness ==
    /\ pc = "store" /\ script = S03 /\ qi = 2 /\ db = 2
    /\ result # None
    /\ Len(trace) = 2 * iterations
    /\ trace[iterations].phase = "baseline"
    /\ trace[iterations + 1].phase = "comparand"

\* C20: in every terminal state of a run no connection is left open: neither
\* the connection main opened (04, postgresql_benchmark) nor one that a query
\* function opened for a single execution (01, 02, 03), whether or not the
\* executions succeeded.
C20_ConnectionsReleased ==
    pc \in {"done", "crashed"} => (conn # "open" /\ ~unclosed)

\* the run has ended because writing the report raised
WriteFailed == pc = "crashed" /\ Value(exception).at = "save"

\* C21: every run of 01..04 writes its report exactly once, after every
\* (query, context) pair of the catalog has finished, whether DONE, SKIPPED or
\* FAILED: a run that has ended without a write failure has written a report
\* that holds the in-memory results as they are.
C21_ReportWrittenOnce ==
    (script # SPG /\ pc \in {"done", "crashed"} /\ ~WriteFailed) =>
        (report # None /\ report = Some(ReportContent))

\* the textual summary holds a line (01, 02), an engine mean (03) or the means
\* (04) for everything that all_results holds
SummaryCovers ==
    CASE script = S01 ->
           /\ DOMAIN summary = QUERIES
           /\ \A d \in DOMAIN all_results : \A q \in DOMAIN all_results[d] :
                /\ d \in DOMAIN summary[q]
                /\ summary[q][d] = all_results[d][q].avg_latency_ms
      [] script = S02 ->
           /\ Len(summary) = Len(Backends)
           /\ \A k \in 1 .. Len(Backends) : summary[k] = OverheadLine(Backends[k])
      [] script = S03 ->
           \A d \in DOMAIN all_results :
              DOMAIN all_results[d] # {} => \E k \in 1 .. Len(summary) : summary[k].db = d
      [] script = S04 ->
           /\ Len(summary) = 1
           /\ DOMAIN all_results = QUERIES
      [] script = SPG -> FALSE

\* C22: when writing the report fails, the run ends with a nonzero exit status,
\* the in-memory results are what they were, and the textual summary of the
\* stored queries has already been printed and stays as printed.
C22_WriteFailureKeepsSummary ==
    [][(pc = "save" /\ report' = None) =>
          /\ pc' = "crashed"
          /\ exit_code' \notin {None, Some(0)}
          /\ all_results' = all_results
          /\ summary' = summary
          /\ SummaryCovers
      ]_vars

C22_Witness ==
    /\ WriteFailed /\ script = S01 /\ any_failed
    /\ exit_code = Some(1) /\ report = None
    /\ SummaryCovers
    /\ \E q \in QUERIES : DOMAIN summary[q] # {}

\* the sample sets of the current runner call hold one latency per execution
\* that recorded one, in execution order, each the elapsed seconds of that
\* execution times `factor`
SamplesAre(factor) ==
    /\ \A k \in 1 .. Len(latencies) :
         /\ k <= Len(trace) /\ trace[k].phase = "baseline"
         /\ latencies[k] = trace[k].elapsed * factor
    /\ \A k \in 1 .. Len(comparand_latencies) :
         /\ iterations + k <= Len(trace) /\ trace[iterations + k].phase = "comparand"
         /\ comparand_latencies[k] = trace[iterations + k].elapsed * factor

\* C23: when a runner called with N >= 1 iterations returns and no execution
\* failed, the query was executed exactly N times in each context and each
\* sample set holds N latencies, the k-th being that of the k-th execution.
C23_ExactlyNExecutions ==
    (pc = "store" /\ iterations >= 1 /\ ~SomeFailed) =>
        /\ \A p \in Contexts :
             Cardinality(ExecutionsIn(trace, p)) =
                 IF p = "baseline" \/ TwoContexts THEN iterations ELSE 0
        /\ Len(latencies) = iterations
        /\ Len(comparand_latencies) = IF TwoContexts THEN iterations ELSE 0
        /\ \A k \in 1 .. iterations :
             /\ latencies[k] = Sample(trace[k].elapsed)
             /\ TwoContexts =>
                    comparand_latencies[k] = Sample(trace[iterations + k].elapsed)

C23_Witness ==
    /\ pc = "store" /\ ~SomeFailed /\ script = S03
    /\ iterations = MaxSamples
    /\ Len(trace) = 2 * iterations
    /\ latencies[1] # latencies[2]
    /\ Value(result).iceberg_latencies = comparand_latencies

\* C24: the row_count of the result of 01 run_benchmark is the number of rows
\* of the last (N-th) execution, 0 when it returned none, whatever the earlier
\* executions returned.
C24_RowCountOfLastExecution ==
    (script = S01 /\ pc = "store" /\ result # None) =>
        /\ Len(trace) = iterations
        /\ Value(result).row_count = trace[Len(trace)].rows

C24_Witness ==
    /\ script = S01 /\ pc = "store" /\ result # None
    /\ iterations >= 2
    /\ trace[1].rows > 0
    /\ trace[Len(trace)].rows = 0
    /\ Value(result).row_count = 0

\* C25 as stated: every latency sample of every script is the elapsed time of
\* its execution times 1000.
C25_AllSamplesInMilliseconds == SamplesAre(1000)

\* C25: the samples of 01, 02, 03 and 04 are the elapsed seconds of their
\* executions times 1000 (milliseconds); those of postgresql_benchmark are the
\* elapsed seconds themselves.
C25_MillisecondsExceptPg ==
    SamplesAre(IF script = SPG THEN 1 ELSE 1000)

C25_Witness ==
    /\ script = S02 /\ phase = "comparand"
    /\ Len(comparand_latencies) = 2
    /\ ~trace[iterations + 1].ok /\ trace[iterations + 2].ok
    /\ comparand_latencies[2] = trace[iterations + 2].elapsed * MS_PER_SECOND

\* C26: for a positive baseline mean the three metrics of an entry of 04 agree:
\* the slowdown factor is 1 exactly when the overhead is 0, it is above 1
\* exactly when the overhead is positive, and the percentage overhead is
\* (slowdown factor - 1) * 100.
C26_MetricsConsistent ==
    (pc = "store" /\ script = S04 /\ RatLess(RatInt(0), Value(result).native.avg_ms)) =>
        LET r == Value(result)
        IN  /\ (r.slowdown_factor = RatInt(1)) <=> (r.overhead_ms = RatInt(0))
            /\ RatLess(RatInt(1), r.slowdown_factor) <=> RatLess(RatInt(0), r.overhead_ms)
            /\ r.overhead_pct = RatMul(RatSub(r.slowdown_factor, RatInt(1)), RatInt(100))

C26_Witness ==
    /\ pc = "store" /\ script = S04
    /\ latencies = <<10, 30>> /\ comparand_latencies = <<20, 20>>
    /\ Value(result).slowdown_factor = RatInt(1)
    /\ Value(result).overhead_pct = RatInt(0)

\* C30: whatever executions fail, postgresql_benchmark main closes its
\* connection after the loop over the catalog and goes through the results
\* summary and the performance analysis to "Benchmark Complete": once the
\* queries have been run, the run ends without an exception and with the
\* connection closed.
C30_PgRunsToCompletion ==
    (script = SPG /\ pc \in {"summary", "analysis", "done", "crashed"} /\ conn # "none") =>
        /\ pc = "crashed" => Value(exception).at = "start"
        /\ (exception = None \/ Value(exception).at # "start") => conn = "closed"

\* C27: validate_environment exits with status 0 only if the check function of
\* every service (PostgreSQL, ClickHouse, StarRocks frontend, Splunk) returned
\* True without raising; a check function that returned False or raised leads
\* to exit status 1.
C27_ExitZeroOnlyIfAllHealthy ==
    (script = VAL /\ pc = "done") =>
        /\ exit_code \in {Some(0), Some(1)}
        /\ exit_code = Some(0) => \A k \in 1 .. Len(checks) : checks[k] = "True"

\* C28: run_search sends at most 30 status requests and none after one read
\* DONE or FAILED; it requests the results only after a status request read
\* DONE, and returns them only then; it returns None without requesting the
\* results when a status request read FAILED, when 30 status requests passed
\* without DONE, and when the job was not created.
C28_BoundedPolling ==
    script = TDB =>
        /\ polls <= MAX_POLLS
        /\ (observed \cap {"DONE", "FAILED"} # {}) =>
               /\ dispatch_state \in observed \cap {"DONE", "FAILED"}
               /\ pc \in {"fetch", "returned", "crashed"}
        /\ (pc = "fetch" \/ fetched) => "DONE" \in observed
        /\ (pc = "returned" /\ search_result # None) => (fetched /\ "DONE" \in observed)
        /\ (/\ pc = "returned"
            /\ \/ "FAILED" \in observed
               \/ (polls = MAX_POLLS /\ "DONE" \notin observed)
               \/ sid = None) =>
               (search_result = None /\ ~fetched)

C28_Witness ==
    /\ script = TDB /\ pc = "returned"
    /\ polls = MAX_POLLS /\ observed = {"QUEUED", "RUNNING"}
    /\ search_result = None /\ ~fetched

\* C29: when load_security_logs has finished normally and the source table did
\* not change during the load, every position 0 .. total - 1 of the source (in
\* id order) is in exactly one inserted batch and no batch holds anything else,
\* the loop made ceil(total / BATCH_SIZE) passes, and loaded = total.
C29_EveryRowLoadedOnce ==
    (script = LCH /\ pc = "done" /\ ~changed) =>
        /\ \A p \in 0 .. total - 1 :
             Cardinality({k \in 1 .. Len(inserted) :
                            inserted[k].from <= p /\ p < inserted[k].to}) = 1
        /\ \A k \in 1 .. Len(inserted) :
             0 <= inserted[k].from /\ inserted[k].from < inserted[k].to
                                   /\ inserted[k].to <= total
        /\ Len(inserted) = (total + BATCH_SIZE - 1) \div BATCH_SIZE
        /\ loaded = total

C29_Witness ==
    /\ script = LCH /\ pc = "done" /\ ~changed
    /\ total = 2 * BATCH_SIZE + 1
    /\ Len(inserted) = 3
    /\ inserted[3] = [from |-> 2 * BATCH_SIZE, to |-> total]
    /\ loaded = total

====
